---- MODULE Spec2Model ----
(***************************************************************************)
(* Model of the dependency-report engine of github_actions_dependencies.py *)
(* (class GitHubActionsDependencyParser): parse_dependency_section,        *)
(* _clean_line and _parse_dependencies.                                    *)
(*                                                                         *)
(* A Python str is a sequence of one-character strings.  ESC stands for    *)
(* the single character \x1b.  Regular expressions are evaluated by        *)
(* position-based matchers that follow Python's re semantics (leftmost     *)
(* match, greedy quantifiers).                                             *)
(***************************************************************************)
EXTENDS Integers, Sequences, FiniteSets, TLC

VARIABLES
    log_content,      \* argument of parse_dependency_section
    pc,               \* "start", "parsing", "returned", "raised"
    lines,            \* section.split('\n')
    idx,              \* number of lines the for loop has consumed
    current_section,  \* the category cursor (None at first)
    version_match,    \* the local variable version_match
    dependencies,     \* the four lists
    result,           \* the value parse_dependency_section returns
    trace,            \* history: one record per consumed line
    raw_line,         \* argument of _clean_line
    clean_pc,         \* "raw", "once", "twice"
    clean_once,       \* _clean_line(raw_line)
    clean_twice       \* _clean_line(_clean_line(raw_line))

parse_vars == <<log_content, pc, lines, idx, current_section, version_match,
                dependencies, result, trace>>
clean_vars == <<raw_line, clean_pc, clean_once, clean_twice>>
vars == <<log_content, pc, lines, idx, current_section, version_match,
          dependencies, result, trace, raw_line, clean_pc, clean_once, clean_twice>>

----------------------------------------------------------------------------
(* Characters and character classes                                        *)

ESC == "ESC"

Digits == {"0","1","2","3","4","5","6","7","8","9"}

UpperCase == <<"A","B","C","D","E","F","G","H","I","J","K","L","M",
               "N","O","P","Q","R","S","T","U","V","W","X","Y","Z">>

LowerCase == <<"a","b","c","d","e","f","g","h","i","j","k","l","m",
               "n","o","p","q","r","s","t","u","v","w","x","y","z">>

Letters == {UpperCase[k] : k \in 1..26} \cup {LowerCase[k] : k \in 1..26}

\* what \s matches and what str.strip() strips
WhiteSpace == {" ", "\t", "\n", "\r"}

\* the character at position i, "" past either end
Ch(s, i) == IF i \in 1..Len(s) THEN s[i] ELSE ""

Min(S) == CHOOSE x \in S : \A y \in S : x <= y

\* end of the greedy run [C]* that starts at i: the first position >= i
\* whose character is not in C
RECURSIVE SkipWhile(_, _, _)
SkipWhile(s, i, C) == IF Ch(s, i) \in C THEN SkipWhile(s, i + 1, C) ELSE i

\* end of the greedy run \S* that starts at i
RECURSIVE SkipNonSpace(_, _)
SkipNonSpace(s, i) ==
    IF Ch(s, i) \in WhiteSpace \cup {""} THEN i ELSE SkipNonSpace(s, i + 1)

\* the first position >= i of a character of C, Len(s) + 1 when there is none
RECURSIVE Find(_, _, _)
Find(s, i, C) == IF Ch(s, i) \in C \cup {""} THEN i ELSE Find(s, i + 1, C)

\* the last position <= i whose character is not in C, 0 when there is none
RECURSIVE SkipBack(_, _, _)
SkipBack(s, i, C) == IF Ch(s, i) \in C THEN SkipBack(s, i - 1, C) ELSE i

\* the literal lit occurs in s at position i
MatchLit(s, i, lit) == \A k \in 1..Len(lit) : Ch(s, i + k - 1) = lit[k]

\* the lower-case letter of every upper-case letter
ToLower == [c \in {UpperCase[k] : k \in 1..26} |->
               LowerCase[CHOOSE k \in 1..26 : UpperCase[k] = c]]

\* str.lower(), one character
LowerChar(c) == IF c \in DOMAIN ToLower THEN ToLower[c] ELSE c

\* str.lower()
Lower(s) == [k \in 1..Len(s) |-> LowerChar(s[k])]

\* sub in s  (Python's  sub in s)
Contains(s, sub) == \E i \in 1..(Len(s) - Len(sub) + 1) : MatchLit(s, i, sub)

\* str.strip()
Strip(s) == SubSeq(s, SkipWhile(s, 1, WhiteSpace), SkipBack(s, Len(s), WhiteSpace))

----------------------------------------------------------------------------
(* Regular expressions of parse_dependency_section and _clean_line         *)

\* \d{4}-\d{2}-\d{2}T\d{2}:\d{2}:\d{2}\.  with "d" for \d
TimestampShape ==
    <<"d","d","d","d","-","d","d","-","d","d","T","d","d",":","d","d",":","d","d",".">>

\* \d{4}-\d{2}-\d{2}T\d{2}:\d{2}:\d{2}\.\d+Z at position i: the position
\* after the match, 0 when it does not match
MatchTimestamp(s, i) ==
    LET n == Len(TimestampShape)
        fixed == \A k \in 1..n :
                    IF TimestampShape[k] = "d" THEN Ch(s, i + k - 1) \in Digits
                    ELSE Ch(s, i + k - 1) = TimestampShape[k]
        j == SkipWhile(s, i + n, Digits)
    IN  IF fixed /\ j > i + n /\ Ch(s, j) = "Z" THEN j + 1 ELSE 0

Separator == <<" ","-","-"," ">>

ColorYellow == <<ESC,"[","1",";","3","3","m">>

ColorReset == <<ESC,"[","m">>

\* number of = in the banner row of start_pattern and end_pattern
RowWidth == 73

RowOfEquals == [k \in 1..RowWidth |-> "="]

ReportTitle ==
    <<"="," ","D","e","p","e","n","d","e","n","c","y"," ","r","e","p","o","r","t">>

\* a sequence of literals matched one after the other from position i: the
\* position after the last, 0 when one does not match
RECURSIVE MatchLits(_, _, _)
MatchLits(s, i, lits) ==
    IF i = 0 THEN 0
    ELSE IF lits = <<>> THEN i
    ELSE IF MatchLit(s, i, Head(lits))
         THEN MatchLits(s, i + Len(Head(lits)), Tail(lits))
         ELSE 0

\* timestamp, " -- " and the yellow colour code that open every banner line
MatchBannerPrefix(s, i) ==
    LET j == MatchTimestamp(s, i)
    IN  MatchLits(s, j, <<Separator, ColorYellow>>)

\* end_pattern at position i: the position after the match, 0 for no match
MatchRow(s, i) ==
    MatchLits(s, MatchBannerPrefix(s, i), <<RowOfEquals, ColorReset>>)

\* the middle line of start_pattern, = Dependency report\s*=\s*\x1b\[m\n
MatchReportLine(s, i) ==
    LET a == MatchLits(s, MatchBannerPrefix(s, i), <<ReportTitle>>)
        b == IF a = 0 THEN 0 ELSE SkipWhile(s, a, WhiteSpace)
        c == IF b # 0 /\ Ch(s, b) = "=" THEN SkipWhile(s, b + 1, WhiteSpace) ELSE 0
    IN  MatchLits(s, c, <<ColorReset, <<"\n">> >>)

\* start_pattern at position i
MatchStart(s, i) ==
    LET a == MatchLits(s, MatchRow(s, i), << <<"\n">> >>)
        b == IF a = 0 THEN 0 ELSE MatchReportLine(s, a)
    IN  IF b = 0 THEN 0 ELSE MatchRow(s, b)

\* re.search(start_pattern, s): [start, end) of the leftmost match as
\* 1-based positions, <<0, 0>> for None (both patterns begin with a
\* timestamp, whose 11th character is T)
SearchStart(s) ==
    LET hits == {i \in 1..Len(s) : Ch(s, i + 10) = "T" /\ MatchStart(s, i) # 0}
    IN  IF hits = {} THEN <<0, 0>> ELSE <<Min(hits), MatchStart(s, Min(hits))>>

\* re.search(end_pattern, s)
SearchEnd(s) ==
    LET hits == {i \in 1..Len(s) : Ch(s, i + 10) = "T" /\ MatchRow(s, i) # 0}
    IN  IF hits = {} THEN <<0, 0>> ELSE <<Min(hits), MatchRow(s, Min(hits))>>

\* re.sub(r'^<timestamp> -- ', '', s)
RemoveTimestampPrefix(s) ==
    LET j == MatchLits(s, MatchTimestamp(s, 1), <<Separator>>)
    IN  IF j = 0 THEN s ELSE SubSeq(s, j, Len(s))

\* length of the match of escape-code pattern p at position i, 0 for none
\*   1: \x1b\[[0-9;]*[a-zA-Z]   2: \x1b\[m   3: \x1b\[K   4: \x1b\[[0-9]*[ABCD]
EscapeLen(p, s, i) ==
    IF ~MatchLit(s, i, <<ESC, "[">>) THEN 0
    ELSE CASE p = 1 -> LET j == SkipWhile(s, i + 2, Digits \cup {";"})
                       IN  IF Ch(s, j) \in Letters THEN j + 1 - i ELSE 0
           [] p = 2 -> IF Ch(s, i + 2) = "m" THEN 3 ELSE 0
           [] p = 3 -> IF Ch(s, i + 2) = "K" THEN 3 ELSE 0
           [] p = 4 -> LET j == SkipWhile(s, i + 2, Digits)
                       IN  IF Ch(s, j) \in {"A","B","C","D"} THEN j + 1 - i ELSE 0

\* re.sub(pattern p, '', s) from position i on: every non-overlapping match,
\* left to right, is dropped
\* (a match can only start at an ESC: the text up to the next ESC is kept)
RECURSIVE RemoveEscapesFrom(_, _, _)
RemoveEscapesFrom(p, s, i) ==
    LET e == Find(s, i, {ESC})
        n == EscapeLen(p, s, e)
    IN  IF e > Len(s) THEN SubSeq(s, i, Len(s))
        ELSE IF n > 0 THEN SubSeq(s, i, e - 1) \o RemoveEscapesFrom(p, s, e + n)
        ELSE SubSeq(s, i, e) \o RemoveEscapesFrom(p, s, e + 1)

RemoveEscapes(p, s) == RemoveEscapesFrom(p, s, 1)

\* re.sub(r'^--+\s*', '', s)
RemoveLeadingDashes(s) ==
    IF MatchLit(s, 1, <<"-","-">>)
    THEN SubSeq(s, SkipWhile(s, SkipWhile(s, 1, {"-"}), WhiteSpace), Len(s))
    ELSE s

\* _clean_line
CleanLine(line) ==
    LET a == Strip(line)
        b == RemoveTimestampPrefix(a)
        c == RemoveEscapes(4, RemoveEscapes(3, RemoveEscapes(2, RemoveEscapes(1, b))))
        d == RemoveLeadingDashes(c)
    IN  Strip(d)

----------------------------------------------------------------------------
(* _parse_dependencies                                                     *)

FOUND_EXTERNALLY == "dependencies_found_externally"

TOO_OLD == "dependencies_too_old"

BUILT_LOCALLY == "dependencies_built_locally"

NOT_FOUND == "dependencies_not_found"

NoSection == "None"

Categories == {FOUND_EXTERNALLY, TOO_OLD, BUILT_LOCALLY, NOT_FOUND}

\* the dict _parse_dependencies starts from
EmptyDependencies == [c \in Categories |-> <<>>]

\* Python's None as the version of an entry
None == <<"None">>

PhraseFoundExternally ==
    <<"t","h","e"," ","f","o","l","l","o","w","i","n","g"," ","d","e","p","e","n","d","e","n",
      "c","i","e","s"," ","f","o","u","n","d"," ","e","x","t","e","r","n","a","l","l","y",":">>

PhraseTooOld ==
    <<"t","h","e"," ","f","o","l","l","o","w","i","n","g"," ","d","e","p","e","n","d","e","n",
      "c","i","e","s"," ","w","e","r","e"," ","f","o","u","n","d"," ","b","u","t"," ","w","e",
      "r","e"," ","t","o","o"," ","o","l","d",":">>

PhraseNotFound ==
    <<"t","h","e"," ","f","o","l","l","o","w","i","n","g"," ","d","e","p","e","n","d","e","n",
      "c","i","e","s"," ","w","e","r","e"," ","n","o","t"," ","f","o","u","n","d">>

PhraseDependencies ==
    <<"d","e","p","e","n","d","e","n","c","i","e","s">>

BuiltLocallyTail ==
    <<" ","B","U","I","L","T"," ","L","O","C","A","L","L","Y",")">>

\* the section a header line switches to, NoSection for any other line
HeaderSection(clean) ==
    LET low == Lower(clean)
    IN  IF Contains(low, PhraseFoundExternally) THEN FOUND_EXTERNALLY
        ELSE IF Contains(low, PhraseTooOld) THEN TOO_OLD
        ELSE IF Contains(low, PhraseNotFound) THEN NOT_FOUND
        ELSE NoSection

\* values of the variable version_match: not yet assigned, None, a match
Unbound == [st |-> "unbound", g1 |-> <<>>, g2 |-> <<>>]

NoMatch == [st |-> "none", g1 |-> <<>>, g2 |-> <<>>]

Match(a, b) == [st |-> "match", g1 |-> a, g2 |-> b]

\* $ at position j: the end of the string, or just before a final newline
AtEnd(s, j) == j = Len(s) + 1 \/ (j = Len(s) /\ s[j] = "\n")

\* a \S+ group can start at p
StartsToken(s, p) == Ch(s, p) \notin WhiteSpace \cup {""}


\* re.search(r'(\S+)\s+(\S+)\s*$', s); every greedy run is maximal, a shorter
\* one is followed by a character the next item cannot take
SearchNameVersionLoose(s) ==
    LET e1(p) == SkipNonSpace(s, p)
        w(p)  == SkipWhile(s, e1(p), WhiteSpace)
        e2(p) == SkipNonSpace(s, w(p))
        ok(p) == /\ StartsToken(s, p)
                 /\ w(p) > e1(p)
                 /\ e2(p) > w(p)
                 /\ SkipWhile(s, e2(p), WhiteSpace) = Len(s) + 1
        hits  == {p \in 1..Len(s) : ok(p)}
    IN  IF hits = {} THEN NoMatch
        ELSE LET p == Min(hits)
             IN  Match(SubSeq(s, p, e1(p) - 1), SubSeq(s, w(p), e2(p) - 1))

\* re.search(r'(\S+) \(([^)]+)\)$', s)
SearchTooOld(s) ==
    LET e1(p) == SkipNonSpace(s, p)
        q(p)  == Find(s, e1(p) + 2, {")"})
        ok(p) == /\ StartsToken(s, p)
                 /\ MatchLit(s, e1(p), <<" ", "(">>)
                 /\ q(p) > e1(p) + 2
                 /\ Ch(s, q(p)) = ")"
                 /\ AtEnd(s, q(p) + 1)
        hits  == {p \in 1..Len(s) : ok(p)}
    IN  IF hits = {} THEN NoMatch
        ELSE LET p == Min(hits)
             IN  Match(SubSeq(s, p, e1(p) - 1), SubSeq(s, e1(p) + 2, q(p) - 1))

\* re.search(r'(\S+) (\S+)  \((\S+) BUILT LOCALLY\)$', s)
SearchBuiltLocally(s) ==
    LET e1(p) == SkipNonSpace(s, p)
        e2(p) == SkipNonSpace(s, e1(p) + 1)
        e3(p) == SkipNonSpace(s, e2(p) + 3)
        ok(p) == /\ StartsToken(s, p)
                 /\ Ch(s, e1(p)) = " "
                 /\ StartsToken(s, e1(p) + 1)
                 /\ MatchLit(s, e2(p), <<" ", " ", "(">>)
                 /\ StartsToken(s, e2(p) + 3)
                 /\ MatchLit(s, e3(p), BuiltLocallyTail)
                 /\ AtEnd(s, e3(p) + Len(BuiltLocallyTail))
        hits  == {p \in 1..Len(s) : ok(p)}
    IN  IF hits = {} THEN NoMatch
        ELSE LET p == Min(hits)
             IN  Match(SubSeq(s, p, e1(p) - 1), SubSeq(s, e1(p) + 1, e2(p) - 1))

\* re.search(r'(\S+) (\S+)$', s)
SearchNameVersion(s) ==
    LET e1(p) == SkipNonSpace(s, p)
        e2(p) == SkipNonSpace(s, e1(p) + 1)
        ok(p) == /\ StartsToken(s, p)
                 /\ Ch(s, e1(p)) = " "
                 /\ StartsToken(s, e1(p) + 1)
                 /\ AtEnd(s, e2(p))
        hits  == {p \in 1..Len(s) : ok(p)}
    IN  IF hits = {} THEN NoMatch
        ELSE LET p == Min(hits)
             IN  Match(SubSeq(s, p, e1(p) - 1), SubSeq(s, e1(p) + 1, e2(p) - 1))

\* Probe with the assignment current_section = "dependencies_built_locally"
\* left out
ProbeKeepsSection(section, match, clean) ==
    IF section = FOUND_EXTERNALLY
    THEN [section |-> section, match |-> SearchNameVersionLoose(clean)]
    ELSE IF section = TOO_OLD
    THEN [section |-> section, match |-> SearchTooOld(clean)]
    ELSE IF section = NOT_FOUND
    THEN IF SearchBuiltLocally(clean).st = "match"
         THEN [section |-> section, match |-> SearchNameVersion(clean)]
         ELSE [section |-> section, match |-> SearchBuiltLocally(clean)]
    ELSE [section |-> section, match |-> match]

\* Probe with the elif for "dependencies_too_old" left out
ProbeSkipsTooOld(section, match, clean) ==
    IF section = FOUND_EXTERNALLY
    THEN [section |-> section, match |-> SearchNameVersionLoose(clean)]
    ELSE IF section = NOT_FOUND
    THEN IF SearchBuiltLocally(clean).st = "match"
         THEN [section |-> BUILT_LOCALLY, match |-> SearchNameVersion(clean)]
         ELSE [section |-> section, match |-> SearchBuiltLocally(clean)]
    ELSE [section |-> section, match |-> match]

\* the if/elif chain on current_section: the section and the value of
\* version_match after it.  No branch is taken for BUILT_LOCALLY, and
\* version_match keeps the value an earlier iteration left in it.
Probe(section, match, clean) ==
    IF section = FOUND_EXTERNALLY
    THEN [section |-> section, match |-> SearchNameVersionLoose(clean)]
    ELSE IF section = TOO_OLD
    THEN [section |-> section, match |-> SearchTooOld(clean)]
    ELSE IF section = NOT_FOUND
    THEN IF SearchBuiltLocally(clean).st = "match"
         THEN [section |-> BUILT_LOCALLY, match |-> SearchNameVersion(clean)]
         ELSE [section |-> section, match |-> SearchBuiltLocally(clean)]
    ELSE [section |-> section, match |-> match]

\* the entry built from version_match (bound) and the cleaned line
EntryOf(match, clean) ==
    IF match.st = "match"
    THEN [package |-> match.g1, version |-> match.g2]
    ELSE [package |-> clean, version |-> None]

\* AppendEntry with the list rebound to [entry]
ReplaceEntry(deps, section, entry) ==
    [deps EXCEPT ![section] = <<entry>>]

\* AppendEntry with insert(0, entry) for append(entry)
PrependEntry(deps, section, entry) ==
    [deps EXCEPT ![section] = <<entry>> \o @]

\* dependencies[section].append(entry)
AppendEntry(deps, section, entry) ==
    [deps EXCEPT ![section] = Append(@, entry)]

\* IsSkipped without the test for "dependencies" in the line
IsSkippedHeadersOnly(section, clean) ==
    \/ clean = <<>>
    \/ HeaderSection(clean) # NoSection
    \/ section = NoSection

\* the line is skipped before the if/elif chain: it cleans to nothing, is a
\* recognized header, no section is current, or it contains "dependencies"
IsSkipped(section, clean) ==
    \/ clean = <<>>
    \/ HeaderSection(clean) # NoSection
    \/ section = NoSection
    \/ Contains(Lower(clean), PhraseDependencies)

\* the section current after an iteration that skips the line
SectionAfterSkip(section, clean) ==
    LET header == IF clean = <<>> THEN NoSection ELSE HeaderSection(clean)
    IN  IF header # NoSection THEN header ELSE section

\* str.split('\n')
RECURSIVE Split(_)
Split(s) ==
    LET cuts == {j \in 1..Len(s) : s[j] = "\n"}
        cut == Min(cuts)
    IN  IF cuts = {} THEN <<s>>
        ELSE <<SubSeq(s, 1, cut - 1)>> \o Split(SubSeq(s, cut + 1, Len(s)))

----------------------------------------------------------------------------
(* Inputs: log texts and raw lines                                         *)

\* longest generated section, in lines, of a log with both banners
MaxLines == 3

\* longest section, in lines, of a log with a missing or malformed banner
MaxOddLines == 1

\* most pieces a raw line given to _clean_line is made of
MaxPieces == 3

\* a timestamp and its separator, as GitHub prefixes every log line
Stamp ==
    <<"2","0","2","5","-","0","7","-","0","4","T","0","8",":","1","0",":","0","3",".","4","9",
      "5","7","6","7","8","Z"," ","-","-"," ">>

BannerRow == Stamp \o ColorYellow \o RowOfEquals \o ColorReset

ReportLine ==
    Stamp \o ColorYellow \o ReportTitle \o <<" ", " ", "=">> \o ColorReset

\* the report line broken in two inside its padding
ReportLineHead == Stamp \o ColorYellow \o ReportTitle

ReportLineRest == <<"=">> \o ColorReset

LineHeaderFound ==
    <<"T","h","e"," ","f","o","l","l","o","w","i","n","g"," ","d","e","p","e","n","d","e","n",
      "c","i","e","s"," ","f","o","u","n","d"," ","e","x","t","e","r","n","a","l","l","y",":">>

LineHeaderTooOld ==
    <<"T","h","e"," ","f","o","l","l","o","w","i","n","g"," ","d","e","p","e","n","d","e","n",
      "c","i","e","s"," ","w","e","r","e"," ","f","o","u","n","d"," ","b","u","t"," ","w","e",
      "r","e"," ","t","o","o"," ","o","l","d",":">>

LineHeaderNotFound ==
    <<"T","h","e"," ","f","o","l","l","o","w","i","n","g"," ","d","e","p","e","n","d","e","n",
      "c","i","e","s"," ","w","e","r","e"," ","n","o","t"," ","f","o","u","n","d",":">>

LineCmake ==
    <<"2","0","2","5","-","0","7","-","0","4","T","0","8",":","1","0",":","0","3",".","4","9",
      "5","7","6","7","8","Z"," ","-","-"," ",ESC,"[","1",";","3","7","m"," "," ","c","m","a",
      "k","e"," ","3",".","2","8",".","1",ESC,"[","m">>

LineMissing ==
    <<" "," ","m","i","s","s","i","n","g","_","p","a","c","k","a","g","e">>

LineOpenexrBuilt ==
    <<"o","p","e","n","e","x","r"," ","3",".","2",".","0"," "," ","(","3",".","3"," ","B","U",
      "I","L","T"," ","L","O","C","A","L","L","Y",")">>

LineFmtOld ==
    <<"f","m","t"," ","(","7",".","0",")">>

\* a line that cleans to the empty string
LineBullet ==
    <<"-","-"," ">>

\* the section lines of the log of test_timestamp_parsing.py
TestHeaderFound ==
    <<"2","0","2","5","-","0","7","-","0","4","T","0","8",":","1","0",":","0","3",".","4","9",
      "6","0","0","0","0","Z"," ","-","-"," ",ESC,"[","1",";","3","2","m","D","e","p","e","n",
      "d","e","n","c","i","e","s"," ","f","o","u","n","d"," ","e","x","t","e","r","n","a","l",
      "l","y",":",ESC,"[","m">>

TestCmake ==
    <<"2","0","2","5","-","0","7","-","0","4","T","0","8",":","1","0",":","0","3",".","4","9",
      "6","1","0","0","0","Z"," ","-","-"," ",ESC,"[","1",";","3","7","m"," "," ","c","m","a",
      "k","e"," ","3",".","2","8",".","1",ESC,"[","m">>

TestBoost ==
    <<"2","0","2","5","-","0","7","-","0","4","T","0","8",":","1","0",":","0","3",".","4","9",
      "6","2","0","0","0","Z"," ","-","-"," ",ESC,"[","1",";","3","7","m"," "," ","b","o","o",
      "s","t"," ","1",".","8","4",".","0",ESC,"[","m">>

TestOpenexr ==
    <<"2","0","2","5","-","0","7","-","0","4","T","0","8",":","1","0",":","0","3",".","4","9",
      "6","3","0","0","0","Z"," ","-","-"," ",ESC,"[","1",";","3","7","m"," "," ","o","p","e",
      "n","e","x","r"," ","3",".","2",".","0",ESC,"[","m">>

TestHeaderNotFound ==
    <<"2","0","2","5","-","0","7","-","0","4","T","0","8",":","1","0",":","0","3",".","4","9",
      "6","4","0","0","0","Z"," ","-","-"," ",ESC,"[","1",";","3","1","m","D","e","p","e","n",
      "d","e","n","c","i","e","s"," ","n","o","t"," ","f","o","u","n","d",":",ESC,"[","m">>

TestMissing ==
    <<"2","0","2","5","-","0","7","-","0","4","T","0","8",":","1","0",":","0","3",".","4","9",
      "6","5","0","0","0","Z"," ","-","-"," ",ESC,"[","1",";","3","7","m"," "," ","m","i","s",
      "s","i","n","g","_","p","a","c","k","a","g","e",ESC,"[","m">>

TestHeaderBuilt ==
    <<"2","0","2","5","-","0","7","-","0","4","T","0","8",":","1","0",":","0","3",".","4","9",
      "6","6","0","0","0","Z"," ","-","-"," ",ESC,"[","1",";","3","3","m","D","e","p","e","n",
      "d","e","n","c","i","e","s"," ","n","o","t"," ","f","o","u","n","d"," ","(","B","U","I",
      "L","T"," ","L","O","C","A","L","L","Y",")",":",ESC,"[","m">>

TestBoostBuilt ==
    <<"2","0","2","5","-","0","7","-","0","4","T","0","8",":","1","0",":","0","3",".","4","9",
      "6","7","0","0","0","Z"," ","-","-"," ",ESC,"[","1",";","3","7","m"," "," ","b","o","o",
      "s","t"," ","1",".","8","4",".","0",ESC,"[","m">>

TestOpenexrBuilt ==
    <<"2","0","2","5","-","0","7","-","0","4","T","0","8",":","1","0",":","0","3",".","4","9",
      "6","8","0","0","0","Z"," ","-","-"," ",ESC,"[","1",";","3","7","m"," "," ","o","p","e",
      "n","e","x","r"," ","3",".","2",".","0",ESC,"[","m">>

\* sample_log of test_timestamp_parsing.py, between its banners
TestSection ==
    << <<>>, TestHeaderFound, TestCmake, TestBoost, TestOpenexr, <<>>,
       TestHeaderNotFound, TestMissing, <<>>,
       TestHeaderBuilt, TestBoostBuilt, TestOpenexrBuilt, <<>> >>

\* a not-found report with a reclassified line, then a second header
MixedSection ==
    <<LineHeaderNotFound, LineCmake, LineOpenexrBuilt, LineMissing,
      LineHeaderFound, LineMissing, LineCmake>>

\* a too-old report
TooOldSection == <<LineHeaderTooOld, LineFmtOld, LineCmake>>

FixedSections == {TestSection, MixedSection, TooOldSection}

LinePool ==
    {LineHeaderFound, LineHeaderNotFound, TestHeaderFound, LineCmake, LineMissing,
     LineOpenexrBuilt, LineBullet}

Sections(n) == UNION {[1..k -> LinePool] : k \in 0..n}

OddSections(n) == UNION {[1..k -> {LineHeaderFound, LineCmake}] : k \in 0..n}

GoodOpening == <<BannerRow, ReportLine, BannerRow>>

\* the broken report line between two rows
BrokenOpening == <<BannerRow, ReportLineHead, ReportLineRest, BannerRow>>

Openings ==
    {GoodOpening,
     BrokenOpening,
     BrokenOpening \o <<ReportLine, BannerRow>>,
     <<BannerRow, ReportLine>>,
     <<RowOfEquals, ReportLine, BannerRow>>}

GoodClosing == <<BannerRow>>

Closings == {GoodClosing, <<RowOfEquals>>, <<>>}

\* '\n'.join(ls)
RECURSIVE Join(_)
Join(ls) ==
    IF ls = <<>> THEN <<>>
    ELSE IF Len(ls) = 1 THEN ls[1]
    ELSE ls[1] \o <<"\n">> \o Join(Tail(ls))

LogLines(opening, section, closing) ==
    << <<"b","u","i","l","d">> >> \o opening \o section \o closing \o << <<"d","o","n","e">> >>

Logs ==
    {Join(LogLines(GoodOpening, s, GoodClosing)) :
        s \in Sections(MaxLines) \cup FixedSections}
    \cup {Join(LogLines(o, s, c)) :
            o \in Openings, c \in Closings, s \in OddSections(MaxOddLines)}

Pieces ==
    {Stamp, ColorYellow, ColorReset, <<"-","-"," ">>, <<" ">>, <<"a"," ","1">>,
     <<ESC>>, <<"[","m">>}

RECURSIVE Concat(_)
Concat(ps) == IF ps = <<>> THEN <<>> ELSE Head(ps) \o Concat(Tail(ps))

RawLines == {Concat(ps) : ps \in UNION {[1..k -> Pieces] : k \in 0..MaxPieces}}

----------------------------------------------------------------------------
(* The state machine                                                       *)

Pending == [pending |-> TRUE]

\* the entry field of the trace record of a line that yields no entry
NoEntry == [package |-> <<>>, version |-> None]

ErrorStart == [error |-> "Dependency report section not found"]

ErrorEnd == [error |-> "End of dependency report section not found"]

ParseIdle ==
    /\ lines = <<>>
    /\ idx = 0
    /\ current_section = NoSection
    /\ version_match = Unbound
    /\ dependencies = EmptyDependencies
    /\ result = Pending
    /\ trace = <<>>

Init ==
    /\ log_content \in Logs
    /\ pc = "start"
    /\ ParseIdle
    /\ raw_line = <<>>
    /\ clean_pc = "idle"
    /\ clean_once = <<>>
    /\ clean_twice = <<>>

\* the text end_pattern is searched in: log_content[start_pos:]
AfterStart(log, start_pos) == SubSeq(log, start_pos, Len(log))

\* parse_dependency_section up to the call of _parse_dependencies
ParseDependencySection ==
    /\ pc = "start"
    /\ LET start_match == SearchStart(log_content)
           start_pos == start_match[2]
           rest == AfterStart(log_content, start_pos)
           end_match == SearchEnd(rest)
           dependency_section == Strip(SubSeq(rest, 1, end_match[1] - 1))
       IN  IF start_match = <<0, 0>>
           THEN /\ result' = ErrorStart
                /\ pc' = "returned"
                /\ lines' = lines
           ELSE IF end_match = <<0, 0>>
           THEN /\ result' = ErrorEnd
                /\ pc' = "returned"
                /\ lines' = lines
           ELSE /\ result' = result
                /\ pc' = "parsing"
                /\ lines' = Split(dependency_section)
    /\ UNCHANGED <<log_content, idx, current_section, version_match, dependencies, trace>>
    /\ UNCHANGED clean_vars

\* one iteration of the for loop of _parse_dependencies
ParseLine ==
    /\ pc = "parsing"
    /\ idx < Len(lines)
    /\ LET clean == CleanLine(lines[idx + 1])
           probed == Probe(current_section, version_match, clean)
           entry == EntryOf(probed.match, clean)
       IN  IF IsSkipped(current_section, clean)
           THEN /\ current_section' = SectionAfterSkip(current_section, clean)
                /\ trace' = Append(trace, [clean |-> clean,
                                           before |-> current_section,
                                           after |-> current_section',
                                           filed |-> NoSection,
                                           entry |-> NoEntry])
                /\ pc' = pc
                /\ UNCHANGED <<version_match, dependencies>>
           ELSE IF probed.match = Unbound
           THEN \* UnboundLocalError at  if version_match:
                /\ pc' = "raised"
                /\ current_section' = probed.section
                /\ UNCHANGED <<version_match, dependencies, trace>>
           ELSE /\ current_section' = probed.section
                /\ version_match' = probed.match
                /\ dependencies' = AppendEntry(dependencies, probed.section, entry)
                /\ trace' = Append(trace, [clean |-> clean,
                                           before |-> current_section,
                                           after |-> probed.section,
                                           filed |-> probed.section,
                                           entry |-> entry])
                /\ pc' = pc
    /\ idx' = idx + 1
    /\ UNCHANGED <<log_content, lines, result>>
    /\ UNCHANGED clean_vars

\* return dependencies, handed on by parse_dependency_section
ReturnDependencies ==
    /\ pc = "parsing"
    /\ idx = Len(lines)
    /\ result' = dependencies
    /\ pc' = "returned"
    /\ UNCHANGED <<log_content, lines, idx, current_section, version_match,
                   dependencies, trace>>
    /\ UNCHANGED clean_vars

Next == ParseDependencySection \/ ParseLine \/ ReturnDependencies

Spec == Init /\ [][Next]_vars

\* _clean_line applied to raw lines, once and again to its own output
InitClean ==
    /\ raw_line \in RawLines
    /\ clean_pc = "raw"
    /\ clean_once = <<>>
    /\ clean_twice = <<>>
    /\ log_content = <<>>
    /\ pc = "idle"
    /\ ParseIdle

CleanOnce ==
    /\ clean_pc = "raw"
    /\ clean_once' = CleanLine(raw_line)
    /\ clean_pc' = "once"
    /\ UNCHANGED <<raw_line, clean_twice>>
    /\ UNCHANGED parse_vars

CleanTwice ==
    /\ clean_pc = "once"
    /\ clean_twice' = CleanLine(clean_once)
    /\ clean_pc' = "twice"
    /\ UNCHANGED <<raw_line, clean_once>>
    /\ UNCHANGED parse_vars

NextClean == CleanOnce \/ CleanTwice

SpecClean == InitClean /\ [][NextClean]_vars

----------------------------------------------------------------------------
(* Vocabulary of the claims, stated on cleaned lines without the parser's  *)
(* matchers                                                                *)

\* the whitespace-separated tokens of s
RECURSIVE Tokens(_)
Tokens(s) ==
    LET a == SkipWhile(s, 1, WhiteSpace)
        b == SkipNonSpace(s, a)
    IN  IF a > Len(s) THEN <<>>
        ELSE <<SubSeq(s, a, b - 1)>> \o Tokens(SubSeq(s, b, Len(s)))

HeaderPhrases == {PhraseFoundExternally, PhraseTooOld, PhraseNotFound}

RecognizedHeader(clean) == \E ph \in HeaderPhrases : Contains(Lower(clean), ph)

MentionsDependencies(clean) == Contains(Lower(clean), PhraseDependencies)

DataLine(clean) ==
    /\ clean # <<>>
    /\ ~MentionsDependencies(clean)
    /\ ~RecognizedHeader(clean)

\* name version  (TAG BUILT LOCALLY)
BuiltLocallyShape(clean) ==
    LET t == Tokens(clean)
    IN  /\ Len(t) = 5
        /\ Len(t[3]) >= 2
        /\ t[3][1] = "("
        /\ clean = t[1] \o <<" ">> \o t[2] \o <<" ", " ">> \o t[3] \o BuiltLocallyTail

\* name version
PlainShape(clean) ==
    LET t == Tokens(clean)
    IN  Len(t) = 2 /\ clean = t[1] \o <<" ">> \o t[2]

NameVersionEntry(clean) ==
    [package |-> Tokens(clean)[1], version |-> Tokens(clean)[2]]

\* the record of the line consumed last
Last == trace[Len(trace)]

\* the entries the trace files under category c, in line order
Filed(c) ==
    LET recs == SelectSeq(trace, LAMBDA r : r.filed = c)
    IN  [k \in 1..Len(recs) |-> recs[k].entry]

\* the trace is the history of this run: one record per consumed line, each
\* starting from the cursor the one before left
TraceIsHistory ==
    /\ pc # "raised" => Len(trace) = idx
    /\ \A k \in 1..Len(trace) :
          trace[k].before = (IF k = 1 THEN NoSection ELSE trace[k - 1].after)
    /\ trace # <<>> /\ pc # "raised" => current_section = Last.after

\* every list holds as many entries as the trace files under it
ListsFollowTrace == \A c \in Categories : Len(dependencies[c]) = Len(Filed(c))

----------------------------------------------------------------------------
(* C1: the headers of the test log                                         *)

TestPhraseFound ==
    <<"D","e","p","e","n","d","e","n","c","i","e","s"," ","f","o","u","n","d"," ","e","x","t",
      "e","r","n","a","l","l","y",":">>

TestPhraseNotFound ==
    <<"D","e","p","e","n","d","e","n","c","i","e","s"," ","n","o","t"," ","f","o","u","n","d",
      ":">>

TestPhraseBuilt ==
    <<"D","e","p","e","n","d","e","n","c","i","e","s"," ","n","o","t"," ","f","o","u","n","d",
      " ","(","B","U","I","L","T"," ","L","O","C","A","L","L","Y",")",":">>

\* the category the test expects a header line to open, NoSection otherwise
TestHeaderCategory(clean) ==
    IF clean = TestPhraseFound THEN FOUND_EXTERNALLY
    ELSE IF clean = TestPhraseNotFound THEN NOT_FOUND
    ELSE IF clean = TestPhraseBuilt THEN BUILT_LOCALLY
    ELSE NoSection

\* an entry line of the test log: name version, or name
TestEntryLine(clean) ==
    /\ Len(Tokens(clean)) \in {1, 2}
    /\ TestHeaderCategory(clean) = NoSection
    /\ ~MentionsDependencies(clean)

\* the section is made of the test's headers, entry lines and blank lines,
\* and every entry line has a header before it
RECURSIVE TestShaped(_, _)
TestShaped(ls, opened) ==
    IF ls = <<>> THEN opened
    ELSE LET clean == CleanLine(Head(ls))
         IN  IF clean = <<>> THEN TestShaped(Tail(ls), opened)
             ELSE IF TestHeaderCategory(clean) # NoSection THEN TestShaped(Tail(ls), TRUE)
             ELSE opened /\ TestEntryLine(clean) /\ TestShaped(Tail(ls), opened)

\* the number of entry lines of ls under the headers of category c, with cur
\* the category of the header seen last
RECURSIVE EntryLinesUnder(_, _, _)
EntryLinesUnder(ls, cur, c) ==
    IF ls = <<>> THEN 0
    ELSE LET clean == CleanLine(Head(ls))
         IN  IF clean = <<>> THEN EntryLinesUnder(Tail(ls), cur, c)
             ELSE IF TestHeaderCategory(clean) # NoSection
             THEN EntryLinesUnder(Tail(ls), TestHeaderCategory(clean), c)
             ELSE (IF cur = c THEN 1 ELSE 0) + EntryLinesUnder(Tail(ls), cur, c)

\* C1: for a section made of the header lines "Dependencies found
\* externally:", "Dependencies not found:" and "Dependencies not found (BUILT
\* LOCALLY):", each followed by entry lines, every list of the result has as
\* many entries as there are entry lines under its header (too_old none).
C1_EntriesFiledUnderTestHeaders ==
    (pc = "returned" /\ DOMAIN result = Categories /\ TestShaped(lines, FALSE))
        => \A c \in Categories : Len(result[c]) = EntryLinesUnder(lines, NoSection, c)

----------------------------------------------------------------------------
(* C2: reclassification                                                    *)

\* C2: a line of shape name version  (TAG BUILT LOCALLY) consumed while the
\* cursor is not_found is filed under built_locally and moves the cursor
\* there; while the cursor is built_locally every data line is filed under
\* built_locally, and only a recognized header moves the cursor away; the
\* lists hold exactly what the trace files, so none of these entries is in
\* dependencies_not_found.
C2_ReclassificationSticks ==
    /\ TraceIsHistory
    /\ dependencies[BUILT_LOCALLY] = Filed(BUILT_LOCALLY)
    /\ dependencies[NOT_FOUND] = Filed(NOT_FOUND)
    /\ trace # <<>> =>
          /\ (Last.before = NOT_FOUND /\ BuiltLocallyShape(Last.clean))
                => Last.filed = BUILT_LOCALLY /\ Last.after = BUILT_LOCALLY
          /\ (Last.before = BUILT_LOCALLY /\ DataLine(Last.clean))
                => Last.filed = BUILT_LOCALLY
          /\ (Last.before = BUILT_LOCALLY /\ ~RecognizedHeader(Last.clean))
                => Last.after = BUILT_LOCALLY

\* a reclassified line followed by a data line, both under built_locally
C2_Witness ==
    \E k \in 2..Len(trace) :
        /\ trace[k - 1].before = NOT_FOUND
        /\ trace[k - 1].filed = BUILT_LOCALLY
        /\ trace[k].before = BUILT_LOCALLY
        /\ trace[k].filed = BUILT_LOCALLY
        /\ Len(dependencies[BUILT_LOCALLY]) >= 2
        /\ dependencies[NOT_FOUND] = <<>>

----------------------------------------------------------------------------
(* C3: totality                                                            *)

\* C3: no step raises (version_match is bound whenever it is read) and the
\* loop always has a next step or returns; a data
\* line consumed while a category is current appends one entry to one list,
\* so the lists together hold one entry per such line; and what
\* parse_dependency_section returns is a Result: an error alone or the four
\* lists.
C3_ParserIsTotal ==
    /\ pc \in {"start", "parsing", "returned"}
    /\ pc = "parsing" => idx <= Len(lines)
    /\ TraceIsHistory
    /\ ListsFollowTrace
    /\ trace # <<>> =>
          ((Last.before # NoSection /\ DataLine(Last.clean)) => Last.filed \in Categories)
    /\ pc = "returned" =>
          \/ result \in {ErrorStart, ErrorEnd}
          \/ DOMAIN result = Categories /\ result = dependencies

\* a run that read version_match under built_locally, where no branch assigns
\* it, and returned its lists
C3_Witness ==
    /\ pc = "returned"
    /\ DOMAIN result = Categories
    /\ \E k \in 1..Len(trace) :
          trace[k].before = BUILT_LOCALLY /\ trace[k].filed = BUILT_LOCALLY

----------------------------------------------------------------------------
(* C4: order                                                               *)

\* C4: every list is the sequence of the entries of the lines filed under its
\* category, in the order of the lines.
C4_AppearanceOrder == \A c \in Categories : dependencies[c] = Filed(c)

\* two different entries in one list
C4_Witness ==
    \E c \in Categories :
        Len(dependencies[c]) >= 2 /\ dependencies[c][1] # dependencies[c][2]

----------------------------------------------------------------------------
(* C5, C6: the banners, line by line                                       *)

\* the positions of line l where a banner row starts
RowStarts(l) == {p \in 1..Len(l) : Ch(l, p + 10) = "T" /\ MatchRow(l, p) # 0}

EndsWithRow(l) == \E p \in RowStarts(l) : MatchRow(l, p) = Len(l) + 1

StartsWithRow(l) == 1 \in RowStarts(l)

\* the line is a Dependency report line from its timestamp to its end
IsReportLine(l) == MatchReportLine(l \o <<"\n">>, 1) = Len(l) + 2

\* lines i, i+1, i+2 of ls are the opening banner
BannerAt(ls, i) ==
    /\ i + 2 <= Len(ls)
    /\ EndsWithRow(ls[i])
    /\ IsReportLine(ls[i + 1])
    /\ StartsWithRow(ls[i + 2])

HasOpeningBanner(log) == \E i \in 1..Len(Split(log)) : BannerAt(Split(log), i)

\* a banner row after the end of the first opening banner
RowAfterBanner(log) ==
    LET ls == Split(log)
        i == Min({j \in 1..Len(ls) : BannerAt(ls, j)})
        third == ls[i + 2]
    IN  \/ RowStarts(SubSeq(third, MatchRow(third, 1), Len(third))) # {}
        \/ \E j \in (i + 3)..Len(ls) : RowStarts(ls[j]) # {}

\* C5: a log without the three-line opening banner yields the start-not-found
\* error alone.
C5_NoBannerIsStartError ==
    pc = "returned" => (result = ErrorStart \/ HasOpeningBanner(log_content))

\* C6: a log with the opening banner and no banner row after it yields the
\* end-not-found error alone: no list, and no line of the log is parsed.
C6_NoClosingRowIsEndError ==
    (pc = "returned" /\ ~(result = ErrorEnd /\ trace = <<>> /\ idx = 0
                          /\ dependencies = EmptyDependencies))
        => ~(HasOpeningBanner(log_content) /\ ~RowAfterBanner(log_content))

----------------------------------------------------------------------------
(* C7: cleaning twice                                                      *)

\* C7: _clean_line(_clean_line(s)) = _clean_line(s) for every raw line s.
C7_CleanIsIdempotent == clean_pc = "twice" => clean_twice = clean_once

----------------------------------------------------------------------------
(* C8: lines that are not data                                             *)

\* C8: a line that cleans to the empty string, a recognized header and a line
\* containing "dependencies" file no entry (the lists hold what the trace
\* files, nothing else); of these only a recognized header moves the cursor.
C8_NonDataLinesFileNothing ==
    /\ ListsFollowTrace
    /\ trace # <<>> =>
          /\ ~DataLine(Last.clean) => Last.filed = NoSection /\ Last.entry = NoEntry
          /\ (~DataLine(Last.clean) /\ ~RecognizedHeader(Last.clean))
                => Last.after = Last.before
          /\ (Last.clean # <<>> /\ RecognizedHeader(Last.clean))
                => Last.after \in Categories \ {BUILT_LOCALLY}

\* a line containing "dependencies" that is no recognized header, consumed
\* while a category is current and entries are already filed
C8_Witness ==
    /\ trace # <<>>
    /\ Last.before \in Categories
    /\ MentionsDependencies(Last.clean)
    /\ ~RecognizedHeader(Last.clean)
    /\ Last.filed = NoSection
    /\ \E c \in Categories : dependencies[c] # <<>>

----------------------------------------------------------------------------
(* C9, C10: entries of lines consumed under not_found                      *)

\* C9: the entry of a line of shape name version  (TAG BUILT LOCALLY) consumed
\* under not_found is (name, version), the first two tokens of the line.
C9_BuiltLocallyEntryIsNameVersion ==
    (trace # <<>> /\ Last.before = NOT_FOUND /\ BuiltLocallyShape(Last.clean))
        => Last.entry = NameVersionEntry(Last.clean)

\* C10: a data line consumed under not_found that has not the BUILT LOCALLY
\* shape is filed under not_found as (name, version) when it has the shape
\* name version, and as (whole line, absent) only otherwise.
C10_NotFoundEntryIsNameVersion ==
    (trace # <<>> /\ Last.before = NOT_FOUND /\ DataLine(Last.clean)
        /\ ~BuiltLocallyShape(Last.clean))
        => /\ Last.filed = NOT_FOUND
           /\ Last.entry = IF PlainShape(Last.clean) THEN NameVersionEntry(Last.clean)
                           ELSE [package |-> Last.clean, version |-> None]

----------------------------------------------------------------------------
(* C11, C12: where entries come from and how the lists grow                *)

\* the entry is made of text of the cleaned line
EntryIsTextOf(entry, clean) ==
    /\ entry.package # <<>>
    /\ Contains(clean, entry.package)
    /\ entry.version # None => Contains(clean, entry.version)

\* record k of the trace is a line that triggered a reclassification
Reclassified(k) ==
    /\ trace[k].before = NOT_FOUND
    /\ trace[k].filed = BUILT_LOCALLY

\* C11: the entry a line appends is text of that same cleaned line, in every
\* category; and a line consumed under built_locally that differs from the
\* line that triggered the reclassification does not yield that line's entry.
C11_EntryIsFromItsOwnLine ==
    (trace # <<>> /\ Last.filed \in Categories)
        => /\ EntryIsTextOf(Last.entry, Last.clean)
           /\ Last.before = BUILT_LOCALLY =>
                 \A k \in 1..(Len(trace) - 1) :
                    (Reclassified(k) /\ trace[k].clean # Last.clean)
                        => Last.entry # trace[k].entry

\* list new is list old, or list old with one entry added at its end
SameOrOneMore(old, new) ==
    \/ new = old
    \/ /\ Len(new) = Len(old) + 1
       /\ SubSeq(new, 1, Len(old)) = old

\* this step consumes a line that is a recognized header
HeaderStep ==
    /\ Len(trace') = Len(trace) + 1
    /\ RecognizedHeader(trace'[Len(trace')].clean)

\* C12: every step leaves each list unchanged or extended by one entry at its
\* end, and extends at most one list; a step that recognizes a header leaves
\* all four lists as they were and moves only the cursor.
C12_ListsAreAppendOnly ==
    [][/\ \A c \in Categories : SameOrOneMore(dependencies[c], dependencies'[c])
       /\ \A c, d \in Categories :
             (dependencies'[c] # dependencies[c] /\ dependencies'[d] # dependencies[d])
                => c = d
       /\ HeaderStep =>
             /\ dependencies' = dependencies
             /\ version_match' = version_match
             /\ current_section' \in Categories]_vars

\* a header consumed mid-section for a category that already has entries,
\* with entries filed after an earlier header of the same category
C12_Witness ==
    /\ trace # <<>>
    /\ RecognizedHeader(Last.clean)
    /\ Last.before \in Categories
    /\ dependencies[Last.after] # <<>>
    /\ current_section = Last.after

====
